---- MODULE Spec2Model ----
(***************************************************************************)
(* Model of the sustainability tracker (opencda/sustainability/metrics.py) *)
(* and of the fleet evaluator (opencda/sustainability/evaluator.py).       *)
(*                                                                         *)
(* The source computes with floats.  The model computes the same formulas  *)
(* exactly, on integers in fixed units, and only on inputs on which every  *)
(* division of the formulas is exact and no comparison of the source sits  *)
(* on its threshold after a rounded float operation (ExactTick):           *)
(*   velocity, speed          0.1 m/s        acceleration, jerk  0.1 m/s^2 *)
(*   dt, idle_time_s, _accum_dt  1/20 s      slope               0.01      *)
(*   cd 0.01   area 0.1   crr 0.001   drivetrain_eff 0.01   mass 1 kg      *)
(*   force 0.01 N    power returned by compute_power  1/30 W               *)
(*   energy_j 1/60 J    regen_j 1/1200 J    distance_m 1/200 m             *)
(*   co2_g  1/(60 * 3.6e6 * 0.89) g    sample_hz 0.1 Hz   throttle 0.01    *)
(*   positions and map bounds 1 m     CSV columns in their rounded unit    *)
(***************************************************************************)
EXTENDS Integers, Sequences, FiniteSets, TLC

VARIABLES metrics, order, grid, cfg, summary, call, ticks, finals, hist

vars == <<metrics, order, grid, cfg, summary, call, ticks, finals, hist>>

\* ---------------------------------------------------------------- bounds
MaxTicks == 2
MaxEvalTicks == 2
MaxIdleTicks == 5
MaxShutdownTicks == 1
MaxFinalize == 2

\* ------------------------------------------------------ program constants
\* utils.py: G = 9.81 (unit 0.01) and RHO_AIR = 1.225 (unit 0.001)
G == 981
RHO_AIR == 1225
\* metrics.py defaults of the physical parameters
DEFAULT_MASS == 1500
DEFAULT_CD == 30
DEFAULT_AREA == 22
DEFAULT_CRR == 10
DEFAULT_DRIVETRAIN_EFF == 90
\* sample_hz=5 (unit 0.1 Hz)
DEFAULT_SAMPLE_HZ == 50
\* grid_g_per_kwh=400.0
GRID_G_PER_KWH == 400
\* evaluator.py defaults: map_bounds min_x/min_y = -1000, cell_size_m = 50
DEFAULT_CELL_SIZE == 50
DefaultMapBounds == [min_x |-> -1000, min_y |-> -1000, max_x |-> 1000, max_y |-> 1000]

\* ----------------------------------------------------------------- helpers
\* dict.get(k, default)
Get(d, k, default) == IF k \in DOMAIN d THEN d[k] ELSE default

Abs(x) == IF x < 0 THEN 0 - x ELSE x

Max(a, b) == IF a >= b THEN a ELSE b

\* a / b where b divides a (the sign of b is free)
Div(a, b) == IF b < 0 THEN (0 - a) \div (0 - b) ELSE a \div b

Divides(b, a) == a % Abs(b) = 0

\* math.sqrt on a perfect square, by bisection of lo..hi
RECURSIVE SqrtIn(_, _, _)
SqrtIn(n, lo, hi) ==
    IF lo >= hi THEN lo
    ELSE LET mid == (lo + hi + 1) \div 2
         IN IF mid * mid <= n THEN SqrtIn(n, mid, hi) ELSE SqrtIn(n, lo, mid - 1)

Sqrt(n) == SqrtIn(n, 0, 1024)

\* int(a / b): Python's int() truncates towards zero
IntTrunc(a, b) == IF (a >= 0) = (b > 0) THEN Abs(a) \div Abs(b) ELSE 0 - (Abs(a) \div Abs(b))

\* ------------------------------------------------------------------ utils.py
aerodynamic_force(cd, area, speed) == Div(Div(RHO_AIR * cd * area, 100) * speed * speed, 20000)

rolling_resistance_force(crr, mass) == Div(crr * mass * G, 1000)

gravity_force_on_slope(mass, slope) == Div(mass * G * slope, 100)

\* ---------------------------------------------------------------- metrics.py
\* SustainabilityMetrics.__init__
NewMetrics(vehicle, veh_params, model_type, sample_hz) ==
    LET mass0 == IF vehicle.phys_ok THEN vehicle.phys_mass
                 ELSE Get(veh_params, "mass", DEFAULT_MASS)
        ev0 == Get(veh_params, "is_ev", FALSE)
    IN [id |-> vehicle.id,
        mass |-> Get(veh_params, "mass", mass0),
        cd |-> Get(veh_params, "cd", DEFAULT_CD),
        area |-> Get(veh_params, "area", DEFAULT_AREA),
        crr |-> Get(veh_params, "crr", DEFAULT_CRR),
        drivetrain_eff |-> Get(veh_params, "drivetrain_eff", DEFAULT_DRIVETRAIN_EFF),
        is_ev |-> IF model_type = "ev" THEN TRUE
                  ELSE IF model_type = "ice" THEN FALSE ELSE ev0,
        energy_j |-> 0, regen_j |-> 0, co2_g |-> 0, distance_m |-> 0,
        harsh_accel |-> 0, harsh_brake |-> 0, idle_time_s |-> 0,
        jerk_samples |-> <<>>, last_accel |-> 0, last_speed |-> 0,
        sample_hz |-> sample_hz, accum_dt |-> 0,
        rows |-> <<>>, csv_open |-> TRUE]

\* SustainabilityMetrics.close: a failure of the file's close is swallowed,
\* and the file object is closed either way
MetricsClosePropagates(m, flush_fails) ==
    [m |-> [m EXCEPT !.csv_open = FALSE], raised |-> flush_fails]

MetricsClose(m, flush_fails) ==
    [m |-> [m EXCEPT !.csv_open = FALSE], raised |-> FALSE]

\* F_total * speed, in mW
MechPower(m, speed, accel, slope) ==
    (aerodynamic_force(m.cd, m.area, speed) + rolling_resistance_force(m.crr, m.mass)
       + gravity_force_on_slope(m.mass, slope) + m.mass * accel * 10) * speed

\* SustainabilityMetrics.compute_power, in 1/30 W
compute_power(m, speed, accel, slope) ==
    LET P == MechPower(m, speed, accel, slope)
    IN IF P >= 0
       THEN IF m.drivetrain_eff >= 1 THEN Div(P * 3, m.drivetrain_eff) ELSE P * 30000
       ELSE Div(Div(P, 1000) * m.drivetrain_eff * 3, 10)

\* power_w * dt_s in 1/60 J
JoulesOf(power_w, dt_s) == Div(power_w * dt_s, 10)

estimate_fuel_co2(power_w, dt_s) ==
    IF power_w <= 0 THEN 0 ELSE JoulesOf(power_w, dt_s) * Div(2310, 10)

estimate_ev_co2(power_w, dt_s) ==
    JoulesOf(power_w, dt_s) * Div(GRID_G_PER_KWH * 89, 100)

Dot(a, b) == a[1] * b[1] + a[2] * b[2] + a[3] * b[3]

\* update: speed, the norm of the velocity
SpeedOf(vel) == Sqrt(Dot(vel, vel))

\* update: signed longitudinal acceleration, 0 unless speed > 0.1
LongitudinalAccel(vel, acc, speed) ==
    IF speed > 1 THEN Div(Dot(vel, acc), speed) ELSE 0

\* update: distance, energy, CO2 and regen of one tick
AccumulateSignedRegen(m, speed, power_w, dt) ==
    [m EXCEPT !.distance_m = @ + speed * dt,
              !.energy_j = IF power_w > 0 THEN @ + JoulesOf(power_w, dt) ELSE @,
              !.co2_g = IF power_w > 0
                        THEN @ + (IF m.is_ev THEN estimate_ev_co2(power_w, dt)
                                  ELSE estimate_fuel_co2(power_w, dt))
                        ELSE @,
              !.regen_j = IF power_w > 0 THEN @ ELSE @ + power_w * dt]

AccumulateUnbranched(m, speed, power_w, dt) ==
    [m EXCEPT !.distance_m = @ + speed * dt,
              !.energy_j = IF power_w > 0 THEN @ + JoulesOf(power_w, dt) ELSE @,
              !.co2_g = @ + (IF m.is_ev THEN estimate_ev_co2(power_w, dt)
                             ELSE estimate_fuel_co2(power_w, dt)),
              !.regen_j = IF power_w > 0 THEN @ ELSE @ + Abs(power_w) * dt]

Accumulate(m, speed, power_w, dt) ==
    [m EXCEPT !.distance_m = @ + speed * dt,
              !.energy_j = IF power_w > 0 THEN @ + JoulesOf(power_w, dt) ELSE @,
              !.co2_g = IF power_w > 0
                        THEN @ + (IF m.is_ev THEN estimate_ev_co2(power_w, dt)
                                  ELSE estimate_fuel_co2(power_w, dt))
                        ELSE @,
              !.regen_j = IF power_w > 0 THEN @ ELSE @ + Abs(power_w) * dt]

\* update: jerk = (accel - last_accel) / dt, in 0.1 m/s^3
JerkOf(m, accel, dt) == Div((accel - m.last_accel) * 20, dt)

\* update: the eco-driving counters
EcoCountersMovingIdle(m, speed, accel, control, dt) ==
    [m EXCEPT !.harsh_accel = IF accel > 20 THEN @ + 1 ELSE @,
              !.harsh_brake = IF accel < -25 THEN @ + 1 ELSE @,
              !.idle_time_s = IF speed < 1 /\ (~control.present
                                                \/ Get(control, "throttle", 0) < 10)
                              THEN @ + dt ELSE @]

EcoCounters(m, speed, accel, control, dt) ==
    [m EXCEPT !.harsh_accel = IF accel > 20 THEN @ + 1 ELSE @,
              !.harsh_brake = IF accel < -25 THEN @ + 1 ELSE @,
              !.idle_time_s = IF speed < 3 /\ (~control.present
                                                \/ Get(control, "throttle", 0) < 10)
                              THEN @ + dt ELSE @]

\* update: self._accum_dt >= 1.0 / max(1, self.sample_hz)
LogDue(m) == m.accum_dt * Max(10, m.sample_hz) >= 200

\* update: the CSV row (x, y, speed, accel, jerk to 3 decimals, dt_s to 4)
LogRow(m, loc, speed, accel, jerk) ==
    [x |-> loc[1] * 1000, y |-> loc[2] * 1000, speed_m_s |-> speed * 100,
     long_accel_m_s2 |-> accel * 100, jerk |-> jerk * 100, dt_s |-> m.accum_dt * 500]

\* update after the dt guard
MetricsStep(m, dt, ob, control, slope) ==
    IF ob.fail = "velocity" THEN [m |-> m, raised |-> TRUE]
    ELSE LET speed == SpeedOf(ob.vel)
             accel == LongitudinalAccel(ob.vel, ob.acc, speed)
             power_w == compute_power(m, speed, accel, slope)
             m1 == Accumulate(m, speed, power_w, dt)
             jerk == JerkOf(m, accel, dt)
             m2 == [m1 EXCEPT !.jerk_samples = Append(@, jerk), !.last_accel = accel]
             m3 == EcoCounters(m2, speed, accel, control, dt)
             m4 == [m3 EXCEPT !.accum_dt = @ + dt]
         IN IF LogDue(m4)
            THEN IF ob.fail = "location" \/ ~m4.csv_open
                 THEN [m |-> m4, raised |-> TRUE]
                 ELSE [m |-> [m4 EXCEPT !.rows = Append(@, LogRow(m4, ob.loc, speed, accel, jerk)),
                                        !.accum_dt = 0],
                       raised |-> FALSE]
            ELSE [m |-> m4, raised |-> FALSE]

\* SustainabilityMetrics.update
MetricsUpdateNegativeDt(m, dt, ob, control, slope) ==
    IF dt = 0 THEN [m |-> m, raised |-> FALSE]
    ELSE MetricsStep(m, dt, ob, control, slope)

MetricsUpdate(m, dt, ob, control, slope) ==
    IF dt <= 0 THEN [m |-> m, raised |-> FALSE]
    ELSE MetricsStep(m, dt, ob, control, slope)

\* The ticks on which the integer arithmetic above is the source's arithmetic:
\* every quotient is exact, and no comparison is decided by float rounding:
\* speed is not on 0.1 or 0.3, accel not on 2.0 or -2.5, the power of a moving
\* vehicle not on 0, and _accum_dt meets the log period only as 0.0 + dt
ExactTick(m, dt, ob, slope) ==
    IF dt <= 0 \/ ob.fail = "velocity" THEN TRUE ELSE
    LET n == Dot(ob.vel, ob.vel)
        speed == Sqrt(n)
        accel == LongitudinalAccel(ob.vel, ob.acc, speed)
        P == MechPower(m, speed, accel, slope)
        power_w == compute_power(m, speed, accel, slope)
    IN /\ speed * speed = n
       /\ speed > 1 => Divides(speed, Dot(ob.vel, ob.acc))
       /\ Divides(100, RHO_AIR * m.cd * m.area)
       /\ Divides(20000, Div(RHO_AIR * m.cd * m.area, 100) * speed * speed)
       /\ Divides(1000, m.crr * m.mass * G)
       /\ Divides(100, m.mass * G * slope)
       /\ m.drivetrain_eff >= 1
       /\ P >= 0 => Divides(m.drivetrain_eff, P * 3)
       /\ P < 0 => Divides(1000, P) /\ Divides(10, Div(P, 1000) * m.drivetrain_eff * 3)
       /\ Divides(10, power_w * dt)
       /\ Divides(dt, (accel - m.last_accel) * 20)
       /\ speed # 1 /\ speed # 3
       /\ accel # 20 /\ accel # -25
       /\ speed > 0 => power_w # 0
       /\ (m.accum_dt + dt) * Max(10, m.sample_hz) = 200 => m.accum_dt = 0

\* -------------------------------------------------------------- evaluator.py
\* update: i = int((loc.x - min_x) / cell_size), j likewise
EvaluatorCell(cf, loc) ==
    <<IntTrunc(loc[1] - cf.map_bounds.min_x, cf.cell_size),
      IntTrunc(loc[2] - cf.map_bounds.min_y, cf.cell_size)>>

GridAt(g, c) == IF c \in DOMAIN g THEN g[c] ELSE 0

\* update: self.grid.setdefault((i,j), 0.0); self.grid[(i,j)] += m.co2_g
GridAdd(g, c, amount) ==
    IF c \in DOMAIN g THEN [g EXCEPT ![c] = @ + amount] ELSE g @@ (c :> amount)

\* SustainabilityEvaluator.register_vehicle
RegisterVehicleReplacing(ms, ord, cf, vehicle, veh_params) ==
    [metrics |-> IF vehicle.id \in DOMAIN ms
                 THEN [ms EXCEPT ![vehicle.id] =
                          NewMetrics(vehicle, veh_params, cf.model_type, DEFAULT_SAMPLE_HZ)]
                 ELSE ms @@ (vehicle.id :>
                          NewMetrics(vehicle, veh_params, cf.model_type, DEFAULT_SAMPLE_HZ)),
     order |-> IF vehicle.id \in DOMAIN ms THEN ord ELSE Append(ord, vehicle.id)]

RegisterVehicle(ms, ord, cf, vehicle, veh_params) ==
    IF vehicle.id \in DOMAIN ms THEN [metrics |-> ms, order |-> ord]
    ELSE [metrics |-> ms @@ (vehicle.id :>
                         NewMetrics(vehicle, veh_params, cf.model_type, DEFAULT_SAMPLE_HZ)),
          order |-> Append(ord, vehicle.id)]

NoControl == [present |-> FALSE]

\* update: the body of the try for one vehicle
UpdateVehicleValidOnly(m, g, cf, dt, ob) ==
    LET r == MetricsUpdate(m, dt, ob, NoControl, 0)
    IN IF r.raised \/ ob.fail = "location" \/ cf.cell_size = 0
       THEN [m |-> r.m, grid |-> g, raised |-> TRUE]
       ELSE [m |-> r.m,
             grid |-> IF dt <= 0 THEN g ELSE GridAdd(g, EvaluatorCell(cf, ob.loc), r.m.co2_g),
             raised |-> FALSE]

UpdateVehicle(m, g, cf, dt, ob) ==
    LET r == MetricsUpdate(m, dt, ob, NoControl, 0)
    IN IF r.raised \/ ob.fail = "location" \/ cf.cell_size = 0
       THEN [m |-> r.m, grid |-> g, raised |-> TRUE]
       ELSE [m |-> r.m, grid |-> GridAdd(g, EvaluatorCell(cf, ob.loc), r.m.co2_g),
             raised |-> FALSE]

\* SustainabilityEvaluator.update: the loop over the trackers in insertion
\* order, each iteration's exception caught
RECURSIVE EvaluatorUpdateAborting(_, _, _, _, _, _)
EvaluatorUpdateAborting(ms, g, cf, ord, dt, obs) ==
    IF ord = <<>> THEN [metrics |-> ms, grid |-> g, raised |-> FALSE]
    ELSE LET vid == Head(ord)
             r == UpdateVehicle(ms[vid], g, cf, dt, obs[vid])
         IN IF r.raised
            THEN [metrics |-> [ms EXCEPT ![vid] = r.m], grid |-> r.grid, raised |-> TRUE]
            ELSE EvaluatorUpdateAborting([ms EXCEPT ![vid] = r.m], r.grid, cf,
                                         Tail(ord), dt, obs)

RECURSIVE EvaluatorUpdate(_, _, _, _, _, _)
EvaluatorUpdate(ms, g, cf, ord, dt, obs) ==
    IF ord = <<>> THEN [metrics |-> ms, grid |-> g, raised |-> FALSE]
    ELSE LET vid == Head(ord)
             r == UpdateVehicle(ms[vid], g, cf, dt, obs[vid])
         IN EvaluatorUpdate([ms EXCEPT ![vid] = r.m], r.grid, cf, Tail(ord), dt, obs)

\* SustainabilityEvaluator.finalize: results() and close() of every tracker
\* in insertion order; an exception of close() would end the loop
RECURSIVE FinalizeTrackers(_, _, _)
FinalizeTrackers(ms, ord, close_fails) ==
    IF ord = <<>> THEN [metrics |-> ms, vehicles |-> <<>>, raised |-> FALSE]
    ELSE LET vid == Head(ord)
             c == MetricsClose(ms[vid], vid \in close_fails)
             ms1 == [ms EXCEPT ![vid] = c.m]
         IN IF c.raised THEN [metrics |-> ms1, vehicles |-> <<>>, raised |-> TRUE]
            ELSE LET rest == FinalizeTrackers(ms1, Tail(ord), close_fails)
                 IN [metrics |-> rest.metrics,
                     vehicles |-> <<[vehicle_id |-> vid, co2_g |-> ms[vid].co2_g]>>
                                    \o rest.vehicles,
                     raised |-> rest.raised]

NoSummary == [status |-> "none", vehicles |-> <<>>, grid |-> <<>>]

\* What is left of the summary file when json.dump() fails: open(out_path,
\* 'w') has truncated it, and it holds no readable summary
UnreadableSummary == [status |-> "unreadable", vehicles |-> <<>>, grid |-> <<>>]

\* finalize: the summary is written after every tracker is closed; a failure
\* of open() or of json.dump() reaches the caller.  write is "ok",
\* "open_fails" (the file stays as it was) or "dump_fails"
Finalize(ms, g, ord, old, close_fails, write) ==
    LET f == FinalizeTrackers(ms, ord, close_fails)
    IN IF f.raised THEN [metrics |-> f.metrics, summary |-> old, raised |-> TRUE]
       ELSE IF write = "ok"
       THEN [metrics |-> f.metrics,
             summary |-> [status |-> "written", vehicles |-> f.vehicles, grid |-> g],
             raised |-> FALSE]
       ELSE IF write = "open_fails"
       THEN [metrics |-> f.metrics, summary |-> old, raised |-> TRUE]
       ELSE [metrics |-> f.metrics, summary |-> UnreadableSummary, raised |-> TRUE]

\* ------------------------------------------------------------------- inputs
\* The simulator's vehicles: vehicle 1 reports its mass, the physics query of
\* vehicle 2 fails
Vehicles == {[id |-> 1, phys_ok |-> TRUE, phys_mass |-> 1500],
             [id |-> 2, phys_ok |-> FALSE, phys_mass |-> 0]}

\* veh_params: nothing but the class, or a heavy electric vehicle of negligible drag
VehParamChoices == {[is_ev |-> FALSE], [mass |-> 5000, cd |-> 0, is_ev |-> TRUE]}

Configs == {[map_bounds |-> DefaultMapBounds, cell_size |-> DEFAULT_CELL_SIZE,
             model_type |-> "auto"]}

Still == <<0, 0, 0>>
Crawl == <<2, 0, 0>>
Fast == <<120, 160, 0>>

\* What the simulator reports for one vehicle on one tick of Evaluator.update
EvalObs ==
    {[vel |-> Fast, acc |-> <<16, -12, 0>>, loc |-> <<-1025, -975>>, fail |-> "none"],
     [vel |-> Fast, acc |-> Still, loc |-> <<30, -975>>, fail |-> "velocity"],
     [vel |-> Fast, acc |-> Still, loc |-> <<-975, -1060>>, fail |-> "location"]}

EvalDt == {-1, 0, 4}

\* The ticks and the veh_params tried around finalize
ShutdownDt == {0, 4}

ShutdownParams == {[is_ev |-> FALSE]}

\* What goes wrong in one call of finalize: the trackers whose file fails to
\* close, and how the write of the summary ends
FinalizeCases == {[close_fails |-> {}, write |-> "ok"],
                  [close_fails |-> {1}, write |-> "ok"],
                  [close_fails |-> {}, write |-> "dump_fails"],
                  [close_fails |-> {1, 2}, write |-> "open_fails"]}

\* One direct call of SustainabilityMetrics.update(snapshot, control, slope)
Tick(vel, acc, fail, control, slope) ==
    [vel |-> vel, acc |-> acc, loc |-> <<30, -975>>, fail |-> fail,
     control |-> control, slope |-> slope]

IdleTicks == {Tick(Still, <<5, 0, 0>>, "none", NoControl, 0),
              Tick(Crawl, Still, "none", NoControl, 0)}

TrackerTicks ==
    IdleTicks \cup
    {Tick(Still, Still, "none", [present |-> TRUE, throttle |-> 50], 0),
     Tick(Crawl, <<30, 0, 0>>, "none", [present |-> TRUE], 0),
     Tick(Fast, <<16, -12, 0>>, "none", NoControl, 0),
     Tick(Fast, <<-18, -24, 0>>, "none", [present |-> TRUE, throttle |-> 0], 0),
     Tick(Fast, Still, "location", NoControl, 1),
     Tick(Fast, Still, "velocity", NoControl, 0)}

TrackerDt == {-1, 0, 1, 2, 20}

IdleDt == {1, 20}

\* The trackers constructed directly: vehicle, veh_params, model_type, sample_hz
TrackerSetups ==
    {<<1, [is_ev |-> FALSE], "auto", DEFAULT_SAMPLE_HZ>>,
     <<1, [is_ev |-> FALSE], "ev", 10>>,
     <<2, [mass |-> 5000, cd |-> 0, is_ev |-> TRUE], "auto", 5>>,
     <<2, [mass |-> 5000, cd |-> 0, is_ev |-> TRUE], "ice", 100>>}

VehicleOf(id) == CHOOSE v \in Vehicles : v.id = id

\* ------------------------------------------------------------------ the fleet
\* SustainabilityEvaluator.__init__
Init ==
    /\ metrics = <<>>
    /\ order = <<>>
    /\ grid = <<>>
    /\ cfg \in Configs
    /\ summary = NoSummary
    /\ call = [op |-> "init"]
    /\ ticks = 0
    /\ finals = 0
    /\ hist = <<>>

RegisterCall(P) ==
    /\ \E v \in Vehicles, p \in P :
        LET r == RegisterVehicle(metrics, order, cfg, v, p)
        IN /\ metrics' = r.metrics
           /\ order' = r.order
           /\ call' = [op |-> "register", vid |-> v.id, veh_params |-> p]
    /\ UNCHANGED <<grid, cfg, summary, ticks, finals, hist>>

UpdateCall(D, bound) ==
    /\ ticks < bound
    /\ \E dt \in D, obs \in [DOMAIN metrics -> EvalObs] :
        /\ \A v \in DOMAIN metrics : ExactTick(metrics[v], dt, obs[v], 0)
        /\ LET r == EvaluatorUpdate(metrics, grid, cfg, order, dt, obs)
           IN /\ metrics' = r.metrics
              /\ grid' = r.grid
              /\ call' = [op |-> "update", dt |-> dt, obs |-> obs, raised |-> r.raised]
    /\ ticks' = ticks + 1
    /\ UNCHANGED <<order, cfg, summary, finals, hist>>

\* finalize; nothing in the source keeps it from being called again, or
\* register_vehicle and update from being called after it
FinalizeCall ==
    /\ finals < MaxFinalize
    /\ \E c \in FinalizeCases :
        LET r == Finalize(metrics, grid, order, summary, c.close_fails, c.write)
        IN /\ metrics' = r.metrics
           /\ summary' = r.summary
           /\ call' = [op |-> "finalize", close_fails |-> c.close_fails,
                       write |-> c.write, raised |-> r.raised]
    /\ finals' = finals + 1
    /\ UNCHANGED <<order, grid, cfg, ticks, hist>>

Register == RegisterCall(VehParamChoices)

Update == UpdateCall(EvalDt, MaxEvalTicks)

\* The evaluator while the simulation runs
Next == Register \/ Update

Spec == Init /\ [][Next]_vars

ShutdownRegister == RegisterCall(ShutdownParams)

ShutdownUpdate == UpdateCall(ShutdownDt, MaxShutdownTicks)

\* The evaluator with finalize, in any order with the other two operations
NextShutdown == ShutdownRegister \/ ShutdownUpdate \/ FinalizeCall

SpecShutdown == Init /\ [][NextShutdown]_vars

\* ------------------------------------------------------------- one tracker
\* A tracker constructed and driven directly; hist is the log of its calls
InitTracker ==
    /\ \E s \in TrackerSetups :
          /\ metrics = (s[1] :> NewMetrics(VehicleOf(s[1]), s[2], s[3], s[4]))
          /\ order = <<s[1]>>
    /\ grid = <<>>
    /\ cfg \in Configs
    /\ summary = NoSummary
    /\ call = [op |-> "init"]
    /\ ticks = 0
    /\ finals = 0
    /\ hist = <<>>

TrackerCall(S, D, bound) ==
    /\ ticks < bound
    /\ \E vid \in DOMAIN metrics, sc \in S, dt \in D :
        /\ ExactTick(metrics[vid], dt, sc, sc.slope)
        /\ LET r == MetricsUpdate(metrics[vid], dt, sc, sc.control, sc.slope)
           IN /\ metrics' = [metrics EXCEPT ![vid] = r.m]
              /\ call' = [op |-> "update", dt |-> dt, obs |-> (vid :> sc),
                          raised |-> r.raised]
              /\ hist' = Append(hist, [dt |-> dt, ob |-> sc, before |-> metrics[vid],
                                       after |-> r.m, raised |-> r.raised])
    /\ ticks' = ticks + 1
    /\ UNCHANGED <<order, grid, cfg, summary, finals>>

TrackerUpdate == TrackerCall(TrackerTicks, TrackerDt, MaxTicks)

SpecTracker == InitTracker /\ [][TrackerUpdate]_vars

IdleUpdate == TrackerCall(IdleTicks, IdleDt, MaxIdleTicks)

SpecIdle == InitTracker /\ [][IdleUpdate]_vars

\* ------------------------------------------------------------- properties
RECURSIVE FnSum(_)
FnSum(f) ==
    IF DOMAIN f = {} THEN 0
    ELSE LET x == CHOOSE x \in DOMAIN f : TRUE
         IN f[x] + FnSum([y \in DOMAIN f \ {x} |-> f[y]])

\* The primed call is a call of update
UpdateCalled == call'.op = "update"

\* The vehicles of a call c of Evaluator.update whose iteration raises, ms
\* being the trackers before the call: the position read fails, or on a valid
\* tick the velocity read fails or a row is due on a log file that is closed
Failing(c, ms) ==
    {v \in DOMAIN c.obs :
        \/ c.obs[v].fail = "location"
        \/ (c.dt > 0 /\ c.obs[v].fail = "velocity")
        \/ (c.dt > 0 /\ ~ms[v].csv_open
               /\ (ms[v].accum_dt + c.dt) * Max(10, ms[v].sample_hz) >= 200)}

Succeeding(c, ms) == DOMAIN c.obs \ Failing(c, ms)

\* The power the tracker m computes for the tick ob
PowerOf(m, ob, slope) ==
    compute_power(m, SpeedOf(ob.vel),
                  LongitudinalAccel(ob.vel, ob.acc, SpeedOf(ob.vel)), slope)

\* C1: a tick whose dt is <= 0 leaves the whole tracker unchanged: the
\* accumulators, the counters, the jerk history, last_accel, the time since
\* the last log row and the rows written; and it returns normally.
C1_InvalidTickIsNoOp ==
    [][(UpdateCalled /\ call'.dt <= 0) => (metrics' = metrics /\ ~call'.raised)]_vars

C1_Witness ==
    /\ call.op = "update" /\ call.dt <= 0
    /\ \E v \in DOMAIN call.obs :
          /\ metrics[v].energy_j > 0 /\ metrics[v].accum_dt > 0
          /\ Len(metrics[v].jerk_samples) > 0
          /\ call.obs[v].vel = Fast

\* C2: no call of update makes energy_j, regen_j, co2_g, distance_m,
\* harsh_accel, harsh_brake or idle_time_s smaller, and each is >= 0.
C2_AccumulatorsMonotone ==
    [][\A v \in DOMAIN metrics :
          LET a == metrics[v]
              b == metrics'[v]
          IN /\ a.energy_j >= 0 /\ b.energy_j >= a.energy_j
             /\ a.regen_j >= 0 /\ b.regen_j >= a.regen_j
             /\ a.co2_g >= 0 /\ b.co2_g >= a.co2_g
             /\ a.distance_m >= 0 /\ b.distance_m >= a.distance_m
             /\ a.harsh_accel >= 0 /\ b.harsh_accel >= a.harsh_accel
             /\ a.harsh_brake >= 0 /\ b.harsh_brake >= a.harsh_brake
             /\ a.idle_time_s >= 0 /\ b.idle_time_s >= a.idle_time_s]_vars

C2_Witness ==
    \E v \in DOMAIN metrics :
        /\ metrics[v].energy_j > 0 /\ metrics[v].co2_g > 0 /\ metrics[v].regen_j > 0
        /\ metrics[v].harsh_brake > 0 /\ metrics[v].distance_m > 0

\* C3: on a tick with dt > 0 the sign of the power decides: power > 0 adds
\* power*dt to energy_j and a strictly positive amount to co2_g (electric or
\* combustion) and leaves regen_j; power <= 0 leaves energy_j and co2_g and
\* adds 0.5*|power|*dt to regen_j.
C3_BranchOnPowerSign ==
    [][UpdateCalled /\ call'.dt > 0 =>
          \A v \in DOMAIN call'.obs :
              call'.obs[v].fail # "velocity" =>
                  LET ob == call'.obs[v]
                      a == metrics[v]
                      b == metrics'[v]
                      p == PowerOf(a, ob, ob.slope)
                  IN IF p > 0
                     THEN /\ b.energy_j = a.energy_j + JoulesOf(p, call'.dt)
                          /\ b.co2_g > a.co2_g
                          /\ b.regen_j = a.regen_j
                     ELSE /\ b.energy_j = a.energy_j
                          /\ b.co2_g = a.co2_g
                          /\ b.regen_j = a.regen_j + Abs(p) * call'.dt]_vars

C3_Witness ==
    /\ call.op = "update" /\ call.dt > 0
    /\ \E v \in DOMAIN call.obs :
          /\ metrics[v].is_ev
          /\ metrics[v].co2_g > 0
          /\ metrics[v].regen_j > 0
          /\ call.obs[v].acc = <<-18, -24, 0>>

\* C4: register_vehicle keeps one tracker per vehicle id: registering an id
\* that is registered changes neither the tracker map nor any tracker (its
\* parameters, its accumulated state, its log file), and registering a new id
\* adds exactly the tracker built from that call's parameters.
C4_RegisterIdempotent ==
    [][call'.op = "register" =>
          /\ IF call'.vid \in DOMAIN metrics
             THEN metrics' = metrics /\ order' = order
             ELSE /\ DOMAIN metrics' = DOMAIN metrics \cup {call'.vid}
                  /\ \A v \in DOMAIN metrics : metrics'[v] = metrics[v]
                  /\ metrics'[call'.vid].is_ev = call'.veh_params.is_ev
                  /\ metrics'[call'.vid].mass = Get(call'.veh_params, "mass", DEFAULT_MASS)
                  /\ metrics'[call'.vid].co2_g = 0
                  /\ metrics'[call'.vid].rows = <<>>
                  /\ order' = Append(order, call'.vid)
          /\ Cardinality(DOMAIN metrics') = Len(order')
          /\ \A i \in 1..Len(order') : order'[i] \in DOMAIN metrics']_vars

C4_Witness ==
    /\ call.op = "register"
    /\ call.vid \in DOMAIN metrics
    /\ metrics[call.vid].is_ev # call.veh_params.is_ev
    /\ metrics[call.vid].co2_g > 0
    /\ Len(metrics[call.vid].rows) > 0
    /\ Len(order) = 2

\* C5: in Evaluator.update a vehicle whose iteration raises stops nothing:
\* the call returns normally, every other tracker is updated as its own
\* update does, and the grid grows by the cumulative CO2 of exactly the
\* vehicles that did not fail.
C5_FailureIsolated ==
    [][UpdateCalled =>
          /\ ~call'.raised
          /\ \A v \in Succeeding(call', metrics) :
                metrics'[v] = MetricsUpdate(metrics[v], call'.dt, call'.obs[v], NoControl, 0).m
          /\ \A v \in Succeeding(call', metrics) :
                LET c == EvaluatorCell(cfg, call'.obs[v].loc)
                IN c \in DOMAIN grid' /\ GridAt(grid', c) >= GridAt(grid, c) + metrics'[v].co2_g
          /\ FnSum(grid') = FnSum(grid)
                + FnSum([v \in Succeeding(call', metrics) |-> metrics'[v].co2_g])]_vars

C5_Witness ==
    /\ call.op = "update" /\ call.dt > 0
    /\ Len(order) = 2
    /\ call.obs[order[1]].fail = "velocity"
    /\ call.obs[order[2]].fail = "none"
    /\ metrics[order[2]].csv_open
    /\ metrics[order[2]].co2_g > 0
    /\ GridAt(grid, EvaluatorCell(cfg, call.obs[order[2]].loc)) > 0

FloorCell(cf, loc) ==
    <<(loc[1] - cf.map_bounds.min_x) \div cf.cell_size,
      (loc[2] - cf.map_bounds.min_y) \div cf.cell_size>>

\* C6: after a call of Evaluator.update every cell holds what it held plus
\* the cumulative CO2 of the vehicles that did not fail and whose position
\* (x, y) has floor((x - min_x)/cell_size), floor((y - min_y)/cell_size)
\* equal to that cell, also for x < min_x or y < min_y.
C6_CellIsFloor ==
    [][UpdateCalled =>
          \A c \in DOMAIN grid \cup DOMAIN grid'
                     \cup {FloorCell(cfg, call'.obs[v].loc) : v \in Succeeding(call', metrics)} :
              GridAt(grid', c) = GridAt(grid, c)
                  + FnSum([v \in {w \in Succeeding(call', metrics) :
                                     FloorCell(cfg, call'.obs[w].loc) = c}
                           |-> metrics'[v].co2_g])]_vars

\* C7: when finalize has ended, normally or with the failure of the summary
\* write, the log file of every registered tracker is closed, also after a
\* tracker whose close failed.
C7_FinalizeClosesAll ==
    call.op = "finalize" => \A v \in DOMAIN metrics : ~metrics[v].csv_open

C7_Witness ==
    /\ call.op = "finalize"
    /\ call.raised
    /\ Len(order) = 2
    /\ order[1] \in call.close_fails
    /\ ~metrics[order[2]].csv_open
    /\ Len(metrics[order[2]].rows) > 0

\* C10: every call of Evaluator.update advances the grid, valid tick or not:
\* with dt <= 0 the trackers stay as they are and the cell of each vehicle
\* that did not fail still grows by that tracker's cumulative CO2; on every
\* call the sum of the cells grows by the cumulative CO2 of the vehicles that
\* did not fail.
C10_GridAdvancesOnEveryCall ==
    [][UpdateCalled =>
          /\ call'.dt <= 0 =>
                /\ metrics' = metrics
                /\ \A c \in DOMAIN grid \cup DOMAIN grid' :
                      GridAt(grid', c) = GridAt(grid, c)
                          + FnSum([v \in {w \in Succeeding(call', metrics) :
                                             EvaluatorCell(cfg, call'.obs[w].loc) = c}
                                   |-> metrics[v].co2_g])
                /\ \A v \in Succeeding(call', metrics) :
                      EvaluatorCell(cfg, call'.obs[v].loc) \in DOMAIN grid'
          /\ FnSum(grid') = FnSum(grid)
                + FnSum([v \in Succeeding(call', metrics) |-> metrics'[v].co2_g])]_vars

C10_Witness ==
    /\ call.op = "update" /\ call.dt <= 0
    /\ \E v \in DOMAIN call.obs :
          /\ call.obs[v].fail # "location"
          /\ metrics[v].co2_g > 0
          /\ GridAt(grid, EvaluatorCell(cfg, call.obs[v].loc)) >= 2 * metrics[v].co2_g

\* A logged call of update on a vehicle that is stationary in the sense of
\* the idle counter: dt > 0, speed < 0.3 and no control signal
IdleTick(h) == h.dt > 0 /\ h.ob.fail # "velocity" /\ SpeedOf(h.ob.vel) < 3
               /\ ~h.ob.control.present

\* hist[k-4..k] are five ticks of dt = 1 s at speed 0 with no control signal
FiveStillSeconds(k) ==
    \A i \in (k - 4)..k : IdleTick(hist[i]) /\ hist[i].dt = 20 /\ hist[i].ob.vel = Still

\* C8 as claimed: every tick with dt > 0, speed < 0.3 and no control signal
\* adds dt to idle_time_s and leaves energy_j unchanged.
C8_IdleLeavesEnergy ==
    \A i \in 1..Len(hist) :
        IdleTick(hist[i]) =>
            /\ hist[i].after.idle_time_s = hist[i].before.idle_time_s + hist[i].dt
            /\ hist[i].after.energy_j = hist[i].before.energy_j

\* C8 amended: every tick with dt > 0, speed < 0.3 and no control signal adds
\* dt to idle_time_s; it leaves energy_j unchanged when the computed power is
\* <= 0, as it is at speed 0, and adds power*dt to energy_j when the power is
\* positive, as it is at 0 < speed < 0.3 on level ground; after 5 such ticks
\* of dt = 1 s at speed 0, idle_time_s is 5.0 s larger and energy_j is what it
\* was before them.
C8_IdleLeavesEnergyAtRest ==
    /\ \A i \in 1..Len(hist) :
          IdleTick(hist[i]) =>
              LET h == hist[i]
                  p == PowerOf(h.before, h.ob, h.ob.slope)
              IN /\ h.after.idle_time_s = h.before.idle_time_s + h.dt
                 /\ p <= 0 => h.after.energy_j = h.before.energy_j
                 /\ p > 0 => h.after.energy_j = h.before.energy_j + JoulesOf(p, h.dt)
                 /\ h.ob.vel = Still => p = 0
    /\ \A k \in 5..Len(hist) :
          FiveStillSeconds(k) =>
              /\ hist[k].after.idle_time_s = hist[k - 4].before.idle_time_s + 100
              /\ hist[k].after.energy_j = hist[k - 4].before.energy_j

C8_Witness ==
    /\ Len(hist) = 5
    /\ FiveStillSeconds(5)
    /\ \E v \in DOMAIN metrics : metrics[v].idle_time_s = 100 /\ metrics[v].energy_j = 0

\* C9 as claimed: on a call of update with dt > 0 that returns normally a row
\* is written exactly when the time accumulated since the last row has
\* reached 1/sample_hz, and afterwards the accumulator is below 1/sample_hz.
C9_RowEveryPeriod ==
    \A i \in 1..Len(hist) :
        (hist[i].dt > 0 /\ ~hist[i].raised) =>
            LET h == hist[i]
                acc == h.before.accum_dt + h.dt
                due == acc * h.before.sample_hz >= 200
            IN /\ Len(h.after.rows) = Len(h.before.rows) + (IF due THEN 1 ELSE 0)
               /\ h.after.accum_dt * h.before.sample_hz < 200

====
